---- MODULE Spec2Model ----
(***************************************************************************)
(* Real-time CPU monitor (src/Real_time_cpu_monitoring_tool.c).            *)
(*                                                                         *)
(* The program is one sequential control flow (main) plus the asynchronous *)
(* signal handler handle_signal, which only clears keep_running.  The      *)
(* model follows main statement group by statement group (pc), and lets    *)
(* the handler run between any two of them.                                *)
(*                                                                         *)
(* Numbers.  unsigned long long arithmetic is modelled modulo 2^ULLBits    *)
(* (the width is scaled down from 64; every counter value the model reads  *)
(* is far below the modulus, as on a real host).  A double holding a       *)
(* utilization percentage is modelled as the exact reduced fraction        *)
(* <<num, den>>; on the counter values of the model the IEEE-754           *)
(* evaluation of line 169 and the exact value compare the same way against *)
(* 0, 80 and 100.  Load averages, uptime and the core count are displayed  *)
(* and logged but never decide anything, so their values are not kept.     *)
(* File sizes are counted in log lines, LOG_MAX_BYTES scaled accordingly.  *)
(***************************************************************************)
EXTENDS Integers, Sequences, FiniteSets

(* ----------------------------- bounds --------------------------------- *)

\* Ticks the loop may start (the code's cycle counter is unbounded).
MaxCycles == 3

\* fopen failures the environment may produce in one session.
MaxWarnings == 2

\* Largest log file size (in lines) at which a rename may still fail.
MaxLogSize == 4

\* Width of unsigned long long in the model.
ULLBits == 6

(* ------------------------ program constants --------------------------- *)

\* line 18
ALERT_THRESHOLD == 80

\* line 20, in log lines instead of bytes: the size at which a write rotates
LOG_MAX_BYTES == 2

\* The descriptor socket() returns when it succeeds.
SockFd == 3

(* ------------------------------ numbers ------------------------------- *)

RECURSIVE Pow2(_)
Pow2(n) == IF n = 0 THEN 1 ELSE 2 * Pow2(n - 1)

ULLModulus == Pow2(ULLBits)

\* unsigned long long subtraction and addition
USub(a, b) == (a - b) % ULLModulus

UAdd(a, b) == (a + b) % ULLModulus

RECURSIVE GCD(_, _)
GCD(a, b) == IF b = 0 THEN a ELSE GCD(b, a % b)

\* a percentage num/den (den > 0, num >= 0) in lowest terms
Frac(num, den) == LET g == GCD(num, den) IN <<num \div g, den \div g>>

Zero == <<0, 1>>

Hundred == <<100, 1>>

Less(x, y) == x[1] * y[2] < y[1] * x[2]

Leq(x, y) == x[1] * y[2] <= y[1] * x[2]

\* cpu_usage >= t, t a whole percentage
AtLeast(x, t) == x[1] >= t * x[2]

(* --------------------------- the log sink ----------------------------- *)
\* A log state: logf (the handle is open), exists (a file is at LOG_FILE),
\* size (of that file), stale (that file is one a rotation closed: it holds
\* pre-rotation content), warned (console warnings of open_log so far),
\* exact (every rotation so far happened exactly at size >= the maximum).

FopenResults(ls) == IF ls.warned < MaxWarnings THEN BOOLEAN ELSE {TRUE}

RenameResults(ls) == IF ls.size + 2 <= MaxLogSize THEN BOOLEAN ELSE {TRUE}

open_log(ls, fopen_ok) ==
    IF ls.logf THEN ls
    ELSE IF fopen_ok
         THEN [ls EXCEPT !.logf = TRUE, !.exists = TRUE,
                         !.size = IF ls.exists THEN ls.size ELSE 0,
                         !.stale = IF ls.exists THEN ls.stale ELSE FALSE]
         ELSE [ls EXCEPT !.warned = @ + 1]

close_log(ls) == [ls EXCEPT !.logf = FALSE]

NeedsRotation(size) == ~(size < LOG_MAX_BYTES)

RenameLog(ls, rename_ok) ==
    IF rename_ok
    THEN [ls EXCEPT !.exists = FALSE, !.size = 0, !.stale = FALSE]
    ELSE [ls EXCEPT !.stale = TRUE]

rotate_log_if_needed(ls, rename_ok, fopen_ok) ==
    IF ~ls.logf THEN ls
    ELSE IF ~ls.exists THEN ls
    ELSE IF ~NeedsRotation(ls.size) THEN ls
    ELSE LET reopened == open_log(RenameLog(close_log(ls), rename_ok), fopen_ok)
         IN  IF reopened.logf
             THEN [reopened EXCEPT !.size = @ + 1]
             ELSE reopened

\* Records whether the rotation decision of one write matched the size rule.
Monitor(before, after, rotated) ==
    [after EXCEPT !.exact = @ /\ (before.logf =>
                                    (rotated <=> before.size >= LOG_MAX_BYTES))]

\* The log states one write_log call can lead to.
write_log(ls) ==
    UNION { LET opened == open_log(ls, f1)
            IN  UNION { { LET rot == rotate_log_if_needed(opened, r, f2)
                              rotated == rot # opened
                              done == IF rot.logf
                                      THEN [rot EXCEPT !.size = @ + 1]
                                      ELSE rot
                          IN  Monitor(opened, done, rotated)
                          : f2 \in FopenResults(opened) }
                        : r \in RenameResults(opened) }
            : f1 \in FopenResults(ls) }

RECURSIVE write_logs(_, _)
\* n write_log calls in a row
write_logs(ls, n) ==
    IF n = 0 THEN {ls}
    ELSE UNION { write_logs(l1, n - 1) : l1 \in write_log(ls) }

(* ----------------------------- the sampler ---------------------------- *)

UserTicks == {0, 1, 4}

IdleTicks == {1}

IowaitTicks == {0, 1}

\* The first line of /proc/stat after "cpu": its unsigned integer fields.
StatLines ==
    { <<u, 0, 0, i, w, 0, 0, 0>> : u \in UserTicks, i \in IdleTicks, w \in IowaitTicks }
    \cup { <<1, 0, 0>>, <<1, 0, 0, 1>> }

\* What reading /proc/stat can give: no file, no line, or a line.
StatReads == { [open |-> FALSE, read |-> FALSE, line |-> <<>>],
               [open |-> TRUE, read |-> FALSE, line |-> <<>>] }
             \cup { [open |-> TRUE, read |-> TRUE, line |-> l] : l \in StatLines }

\* sscanf into fields initialised to 0: field k of the line, or 0
Field(line, k) == IF k <= Len(line) THEN line[k] ELSE 0

RECURSIVE SumFields(_, _)
SumFields(line, k) == IF k = 0 THEN 0 ELSE UAdd(SumFields(line, k - 1), Field(line, k))

\* get_cpu_times: [ok, idle, total, warnings], idle and total meaningful when ok
get_cpu_times(rd) ==
    IF ~rd.open THEN [ok |-> FALSE, idle |-> 0, total |-> 0, warnings |-> 1]
    ELSE IF ~rd.read THEN [ok |-> FALSE, idle |-> 0, total |-> 0, warnings |-> 1]
    ELSE IF Len(rd.line) < 4 THEN [ok |-> FALSE, idle |-> 0, total |-> 0, warnings |-> 1]
    ELSE [ok |-> TRUE,
          idle |-> UAdd(Field(rd.line, 4), Field(rd.line, 5)),
          total |-> SumFields(rd.line, 8),
          warnings |-> 0]

(* ------------------------- the usage calculator ----------------------- *)

Clamp(num, den) ==
    IF num < 0 THEN Zero
    ELSE IF num > 100 * den THEN Hundred
    ELSE Frac(num, den)

calculate_cpu_usage_NoFirstGuard(p_idle, p_total, c_idle, c_total, ok) ==
    IF ~ok THEN Zero
    ELSE IF c_total <= p_total THEN Zero
    ELSE LET idle_diff == USub(c_idle, p_idle)
             total_diff == USub(c_total, p_total)
         IN  IF total_diff = 0 THEN Zero
             ELSE Clamp(100 * (total_diff - idle_diff), total_diff)

\* lines 160-173
calculate_cpu_usage(p_idle, p_total, c_idle, c_total, ok) ==
    IF ~ok THEN Zero
    ELSE IF c_total <= p_total \/ p_total = 0 THEN Zero
    ELSE LET idle_diff == USub(c_idle, p_idle)
             total_diff == USub(c_total, p_total)
         IN  IF total_diff = 0 THEN Zero
             ELSE Clamp(100 * (total_diff - idle_diff), total_diff)

(* ------------------------------- state -------------------------------- *)

VARIABLES
    pc,             \* position of main
    keep_running,   \* line 25
    log,            \* logf and the file at LOG_FILE
    udp_sock,       \* line 27
    sock_open,      \* the descriptor udp_sock names is open
    curses,         \* between initscr() and endwin()
    prev_idle, prev_total, idle, total, ok_times,
    usage, cpu_usage, max_usage, min_usage,
    cycle,
    alert_logs,     \* write_log("ALERT triggered ...") calls so far
    alert_handoffs, \* send_udp_alert calls so far
    sendto_calls,   \* sendto calls so far
    send_failed,    \* some sendto failed
    cleanup,        \* the shutdown steps taken, in order
    exit_status     \* -1 while running

vars == <<pc, keep_running, log, udp_sock, sock_open, curses,
          prev_idle, prev_total, idle, total, ok_times,
          usage, cpu_usage, max_usage, min_usage, cycle,
          alert_logs, alert_handoffs, sendto_calls, send_failed,
          cleanup, exit_status>>

sampleVars == <<prev_idle, prev_total, idle, total, ok_times>>

usageVars == <<usage, cpu_usage, max_usage, min_usage>>

alertVars == <<alert_logs, alert_handoffs, sendto_calls, send_failed>>

sockVars == <<udp_sock, sock_open>>

endVars == <<cleanup, exit_status>>

\* The file at LOG_FILE a session may find: none, or one left by an earlier run.
InitialLogs ==
    { [logf |-> FALSE, exists |-> FALSE, size |-> 0, stale |-> FALSE,
       warned |-> 0, exact |-> TRUE] }
    \cup { [logf |-> FALSE, exists |-> TRUE, size |-> s, stale |-> FALSE,
            warned |-> 0, exact |-> TRUE] : s \in 0..LOG_MAX_BYTES }

\* The state once main has installed the handlers (lines 225-226).
Init ==
    /\ pc = "socket"
    /\ keep_running = 1
    /\ log \in InitialLogs
    /\ udp_sock = -1
    /\ sock_open = FALSE
    /\ curses = FALSE
    /\ prev_idle = 0 /\ prev_total = 0 /\ idle = 0 /\ total = 0
    /\ ok_times = FALSE
    /\ usage = Zero /\ cpu_usage = Zero
    /\ max_usage = Zero /\ min_usage = Hundred
    /\ cycle = 0
    /\ alert_logs = 0 /\ alert_handoffs = 0 /\ sendto_calls = 0
    /\ send_failed = FALSE
    /\ cleanup = <<>>
    /\ exit_status = -1

(* ------------------------------ actions ------------------------------- *)

\* handle_signal: SIGINT or SIGTERM, at any point before the process exits
handle_signal ==
    /\ pc # "done"
    /\ keep_running' = 0
    /\ UNCHANGED <<pc, log, sockVars, curses, sampleVars, usageVars, cycle,
                   alertVars, endVars>>

\* lines 229-245: socket(), inet_pton()
SocketSetup ==
    /\ pc = "socket"
    /\ \E created \in BOOLEAN, addr_ok \in BOOLEAN :
         IF ~created
         THEN udp_sock' = -1 /\ sock_open' = FALSE
         ELSE IF ~addr_ok
              THEN udp_sock' = -1 /\ sock_open' = FALSE
              ELSE udp_sock' = SockFd /\ sock_open' = TRUE
    /\ pc' = "startlog"
    /\ UNCHANGED <<keep_running, log, curses, sampleVars, usageVars, cycle,
                   alertVars, endVars>>

\* lines 247-248: open_log(); write_log("Starting CPU monitor")
StartLog ==
    /\ pc = "startlog"
    /\ \E f \in FopenResults(log) : log' \in write_log(open_log(log, f))
    /\ pc' = "init"
    /\ UNCHANGED <<keep_running, sockVars, curses, sampleVars, usageVars, cycle,
                   alertVars, endVars>>

\* lines 250-265: get_cpu_cores(), ncurses init, the locals
InitScreen ==
    /\ pc = "init"
    /\ curses' = TRUE
    /\ pc' = "loop"
    /\ UNCHANGED <<keep_running, log, sockVars, sampleVars, usageVars, cycle,
                   alertVars, endVars>>

LoopCheck_Unconditional ==
    /\ pc = "loop"
    /\ cycle < MaxCycles
    /\ pc' = "sample"
    /\ UNCHANGED <<keep_running, log, sockVars, curses, sampleVars, usageVars,
                   cycle, alertVars, endVars>>

\* line 267: while (keep_running)
LoopCheck ==
    /\ pc = "loop"
    /\ \/ keep_running # 0 /\ cycle < MaxCycles /\ pc' = "sample"
       \/ keep_running = 0 /\ pc' = "endwin"
    /\ UNCHANGED <<keep_running, log, sockVars, curses, sampleVars, usageVars,
                   cycle, alertVars, endVars>>

\* line 268: get_cpu_times(&idle, &total, &ok_times)
GetCpuTimes ==
    /\ pc = "sample"
    /\ \E rd \in StatReads :
         LET r == get_cpu_times(rd)
         IN  /\ ok_times' = r.ok
             /\ idle' = IF r.ok THEN r.idle ELSE idle
             /\ total' = IF r.ok THEN r.total ELSE total
             /\ log' \in write_logs(log, r.warnings)
    /\ pc' = "calc"
    /\ UNCHANGED <<keep_running, sockVars, curses, prev_idle, prev_total,
                   usageVars, cycle, alertVars, endVars>>

\* line 269
CalcUsage ==
    /\ pc = "calc"
    /\ usage' = calculate_cpu_usage(prev_idle, prev_total, idle, total, ok_times)
    /\ pc' = "save_prev"
    /\ UNCHANGED <<keep_running, log, sockVars, curses, sampleVars,
                   cpu_usage, max_usage, min_usage, cycle, alertVars, endVars>>

UpdatePrev_Inverted ==
    /\ pc = "save_prev"
    /\ IF ~ok_times
       THEN prev_idle' = idle /\ prev_total' = total
       ELSE UNCHANGED <<prev_idle, prev_total>>
    /\ pc' = "sysinfo"
    /\ UNCHANGED <<keep_running, log, sockVars, curses, idle, total, ok_times,
                   usageVars, cycle, alertVars, endVars>>

\* lines 272-275
UpdatePrev ==
    /\ pc = "save_prev"
    /\ IF ok_times
       THEN prev_idle' = idle /\ prev_total' = total
       ELSE UNCHANGED <<prev_idle, prev_total>>
    /\ pc' = "sysinfo"
    /\ UNCHANGED <<keep_running, log, sockVars, curses, idle, total, ok_times,
                   usageVars, cycle, alertVars, endVars>>

\* line 278: get_system_info writes no, one or two warnings
GetSystemInfo ==
    /\ pc = "sysinfo"
    /\ \E loadavg_bad \in BOOLEAN, uptime_bad \in BOOLEAN :
         log' \in write_logs(log, (IF loadavg_bad THEN 1 ELSE 0)
                                  + (IF uptime_bad THEN 1 ELSE 0))
    /\ pc' = "extremes"
    /\ UNCHANGED <<keep_running, sockVars, curses, sampleVars, usageVars, cycle,
                   alertVars, endVars>>

UpdateExtremes_MaxOnly ==
    /\ pc = "extremes"
    /\ cpu_usage' = usage
    /\ max_usage' = IF Less(max_usage, usage) THEN usage ELSE max_usage
    /\ min_usage' = min_usage
    /\ pc' = "logtick"
    /\ UNCHANGED <<keep_running, log, sockVars, curses, sampleVars, usage, cycle,
                   alertVars, endVars>>

\* lines 281-283
UpdateExtremes ==
    /\ pc = "extremes"
    /\ cpu_usage' = usage
    /\ max_usage' = IF Less(max_usage, usage) THEN usage ELSE max_usage
    /\ min_usage' = IF Less(usage, min_usage) THEN usage ELSE min_usage
    /\ pc' = "logtick"
    /\ UNCHANGED <<keep_running, log, sockVars, curses, sampleVars, usage, cycle,
                   alertVars, endVars>>

\* lines 286-287
LogTick ==
    /\ pc = "logtick"
    /\ log' \in write_log(log)
    /\ pc' = "alert"
    /\ UNCHANGED <<keep_running, sockVars, curses, sampleVars, usageVars, cycle,
                   alertVars, endVars>>

ShouldAlert_Strict(u) == u[1] > ALERT_THRESHOLD * u[2]

\* line 310: cpu_usage >= ALERT_THRESHOLD
ShouldAlert(u) == AtLeast(u, ALERT_THRESHOLD)

SendUdpAlert_NoGuard(ls) ==
    /\ alert_handoffs' = alert_handoffs + 1
    /\ sendto_calls' = sendto_calls + 1
    /\ \E sent \in BOOLEAN : send_failed' = (send_failed \/ ~sent)
    /\ log' \in write_log(ls)

\* send_udp_alert, lines 200-211, called with the log in state ls: nothing
\* without a socket; else one sendto and one log line, whatever sendto returns
SendUdpAlert(ls) ==
    /\ alert_handoffs' = alert_handoffs + 1
    /\ IF udp_sock < 0
       THEN /\ log' = ls
            /\ UNCHANGED <<sendto_calls, send_failed>>
       ELSE /\ sendto_calls' = sendto_calls + 1
            /\ \E sent \in BOOLEAN : send_failed' = (send_failed \/ ~sent)
            /\ log' \in write_log(ls)

\* lines 290-322: the dashboard, then the alerting logic:
\* write_log("ALERT triggered ...") and send_udp_alert
RenderAndAlert ==
    /\ pc = "alert"
    /\ IF ShouldAlert(cpu_usage)
       THEN /\ alert_logs' = alert_logs + 1
            /\ \E ls \in write_log(log) : SendUdpAlert(ls)
       ELSE UNCHANGED <<log, alertVars>>
    /\ pc' = "getch"
    /\ UNCHANGED <<keep_running, sockVars, curses, sampleVars, usageVars, cycle,
                   endVars>>

PollKey_Return ==
    /\ pc = "getch"
    /\ cycle' = cycle + 1
    /\ \E quit \in BOOLEAN :
         IF quit
         THEN keep_running' = 0 /\ pc' = "done" /\ exit_status' = 0
         ELSE UNCHANGED <<keep_running, exit_status>> /\ pc' = "sleep"
    /\ UNCHANGED <<log, sockVars, curses, sampleVars, usageVars, alertVars,
                   cleanup>>

\* lines 324-332: cycle++, refresh(), getch()
PollKey ==
    /\ pc = "getch"
    /\ cycle' = cycle + 1
    /\ \E quit \in BOOLEAN :
         IF quit
         THEN keep_running' = 0 /\ pc' = "endwin"
         ELSE UNCHANGED keep_running /\ pc' = "sleep"
    /\ UNCHANGED <<log, sockVars, curses, sampleVars, usageVars, alertVars,
                   endVars>>

\* line 335
Sleep ==
    /\ pc = "sleep"
    /\ pc' = "loop"
    /\ UNCHANGED <<keep_running, log, sockVars, curses, sampleVars, usageVars,
                   cycle, alertVars, endVars>>

\* line 339
EndWin ==
    /\ pc = "endwin"
    /\ curses' = FALSE
    /\ cleanup' = Append(cleanup, "presenter")
    /\ pc' = "shutlog"
    /\ UNCHANGED <<keep_running, log, sockVars, sampleVars, usageVars, cycle,
                   alertVars, exit_status>>

\* line 340
ShutdownLog ==
    /\ pc = "shutlog"
    /\ log' \in write_log(log)
    /\ cleanup' = IF log'.logf THEN Append(cleanup, "logline") ELSE cleanup
    /\ pc' = "closelog"
    /\ UNCHANGED <<keep_running, sockVars, curses, sampleVars, usageVars, cycle,
                   alertVars, exit_status>>

\* line 341
CloseLog ==
    /\ pc = "closelog"
    /\ log' = close_log(log)
    /\ cleanup' = Append(cleanup, "logsink")
    /\ pc' = "closeudp"
    /\ UNCHANGED <<keep_running, sockVars, curses, sampleVars, usageVars, cycle,
                   alertVars, exit_status>>

\* lines 342-345
CloseSocketAndReturn ==
    /\ pc = "closeudp"
    /\ sock_open' = IF udp_sock >= 0 THEN FALSE ELSE sock_open
    /\ cleanup' = Append(cleanup, "transport")
    /\ exit_status' = 0
    /\ pc' = "done"
    /\ UNCHANGED <<keep_running, log, udp_sock, curses, sampleVars, usageVars,
                   cycle, alertVars>>

Main ==
    \/ SocketSetup
    \/ StartLog
    \/ InitScreen
    \/ LoopCheck
    \/ GetCpuTimes
    \/ CalcUsage
    \/ UpdatePrev
    \/ GetSystemInfo
    \/ UpdateExtremes
    \/ LogTick
    \/ RenderAndAlert
    \/ PollKey
    \/ Sleep
    \/ EndWin
    \/ ShutdownLog
    \/ CloseLog
    \/ CloseSocketAndReturn

Next == handle_signal \/ Main

Spec == Init /\ [][Next]_vars

\* main is the running thread of the process: it is never stopped for ever
FairSpec == Spec /\ WF_vars(Main)

(* ------------------------------ properties ---------------------------- *)

LoopPCs == {"loop", "sample", "calc", "save_prev", "sysinfo", "extremes",
            "logtick", "alert", "getch", "sleep"}

ShutdownPCs == {"endwin", "shutlog", "closelog", "closeudp"}

Terminated == pc = "done" /\ exit_status = 0

\* The extremes-update step of some tick has run.
AfterUpdate == cycle > 0 \/ pc \in {"logtick", "alert", "getch"}

LoopLeftIntoShutdown == (pc \in LoopPCs /\ pc' \notin LoopPCs) => (pc' = "endwin")

\* C1: once the quit key has been read or keep_running is 0, the program
\* reaches Terminated with exit status 0, and only through the shutdown
\* steps in their order: presenter closed, shutdown log line (when the log is
\* open), log sink closed, alert transport closed; the loop is left only
\* into the first of these steps.
C1_ShutdownAlwaysRuns ==
    /\ (keep_running = 0 /\ pc \in LoopPCs \cup ShutdownPCs) ~> Terminated
    /\ [](pc = "done" =>
            /\ exit_status = 0
            /\ cleanup \in { <<"presenter", "logline", "logsink", "transport">>,
                             <<"presenter", "logsink", "transport">> }
            /\ ~curses /\ ~log.logf /\ ~sock_open)
    /\ [][LoopLeftIntoShutdown]_vars

C1_Witness ==
    /\ Terminated
    /\ cycle >= 1
    /\ cleanup = <<"presenter", "logline", "logsink", "transport">>

\* C2: the handler may run at any point; once keep_running is 0 it stays 0,
\* no loop condition passes again (no new tick's sample step is entered:
\* a tick is in progress from the moment its loop condition was read as
\* true), and the next loop condition read starts the shutdown.
C2_NoNewTickAfterFlag ==
    [][keep_running = 0 =>
         /\ keep_running' = 0
         /\ (pc' = "sample" => pc = "sample")
         /\ (pc = "loop" /\ pc' # "loop" => pc' = "endwin")]_vars

\* The flag was set during a tick that then ran to its end without a quit key.
C2_Witness == keep_running = 0 /\ pc = "sleep" /\ cycle >= 2

\* C3: after every tick's extremes update min_usage <= cpu_usage <= max_usage,
\* and until the first one the extremes are {max: 0.0, min: 100.0}.
C3_ExtremesBracketUsage ==
    /\ AfterUpdate => Leq(min_usage, cpu_usage) /\ Leq(cpu_usage, max_usage)
    /\ ~AfterUpdate => max_usage = <<0, 1>> /\ min_usage = <<100, 1>>

C3_Witness ==
    /\ pc = "logtick"
    /\ Less(min_usage, cpu_usage)
    /\ Less(cpu_usage, max_usage)

\* C4: the step after the usage computation overwrites (prev_idle, prev_total)
\* with the current sample when ok_times holds and leaves it alone when it
\* does not; no other step writes it.
C4_PrevOverwrittenIffOk ==
    [][IF pc = "save_prev" /\ pc' # "save_prev"
       THEN /\ ok_times => prev_idle' = idle /\ prev_total' = total
            /\ ~ok_times => prev_idle' = prev_idle /\ prev_total' = prev_total
       ELSE prev_idle' = prev_idle /\ prev_total' = prev_total]_vars

\* A failed read after a valid one: the valid sample is still the previous one.
C4_Witness == pc = "sysinfo" /\ ~ok_times /\ prev_total > 0 /\ cycle >= 1

\* The usage C5 states, in integer arithmetic: 0 if not ok, 0 if
\* curr.total <= prev.total, 0 for prev = {0,0}, else
\* 100 * (1 - idle_diff/total_diff) clamped into [0, 100].
SpecUsage(p_idle, p_total, c_idle, c_total, ok) ==
    IF ~ok THEN <<0, 1>>
    ELSE IF c_total <= p_total THEN <<0, 1>>
    ELSE IF p_idle = 0 /\ p_total = 0 THEN <<0, 1>>
    ELSE LET idle_diff == c_idle - p_idle
             total_diff == c_total - p_total
             num == 100 * (total_diff - idle_diff)
         IN  IF num < 0 THEN <<0, 1>>
             ELSE IF num > 100 * total_diff THEN <<100, 1>>
             ELSE Frac(num, total_diff)

\* C5: the usage computed in a tick is the one C5 states, for every previous
\* and current sample, curr.idle < prev.idle included.
C5_UsageAsSpecified ==
    pc = "save_prev" =>
        usage = SpecUsage(prev_idle, prev_total, idle, total, ok_times)

C7_NoSendAfterAnyFailure ==
    [][pc # "socket" /\ (udp_sock < 0 \/ send_failed) =>
         sendto_calls' = sendto_calls]_vars

\* C7 as amended: without a socket (creation failed or the address was
\* invalid) no send is ever attempted and the socket stays absent, while an
\* alerting tick still logs its alert and goes on to poll the key; a failed
\* send leaves the socket in place.
C7_NoSendWithoutSocket ==
    [][/\ pc # "socket" /\ udp_sock < 0 =>
            /\ sendto_calls' = sendto_calls
            /\ udp_sock' < 0
            /\ (pc = "alert" /\ pc' # "alert" /\ AtLeast(cpu_usage, 80) =>
                    alert_logs' = alert_logs + 1 /\ pc' = "getch")
       /\ send_failed' => udp_sock' = udp_sock]_vars

\* A tick started after an alert that was logged and not sent.
C7_Witness ==
    /\ udp_sock < 0
    /\ alert_logs >= 1
    /\ sendto_calls = 0
    /\ pc = "sample"

\* C8: the console warning for a log file that cannot be opened is printed at
\* most once in a session.
C8_WarnedAtMostOnce == log.warned <= 1

\* C9: a write rotates exactly when the size before it is >= the maximum, and
\* the file a rotation closed is never written again.
C9_RotatedFileNeverActive == log.exact /\ (log.logf => ~log.stale)

====
